---- MODULE Spec2Model ----
(***************************************************************************)
(* QuizMaster React (src/main_container_for_quizmaster/src/App.js): the    *)
(* quiz session held in the App component's state cells, the countdown    *)
(* interval, and the high score kept under LOCAL_STORAGE_HIGH_SCORE_KEY.   *)
(*                                                                         *)
(* One step of the model is one browser event (a click on a rendered       *)
(* button, one firing of an interval, a page load) run to completion: the  *)
(* handler, the state updates it queues, the re-render and the effects     *)
(* (timer effect, score effect) that the re-render triggers.  JavaScript   *)
(* runs the events one after the other; React commits a discrete event's   *)
(* updates before the next event is dispatched.                            *)
(***************************************************************************)
EXTENDS Integers, Sequences, FiniteSets, TLC

VARIABLES
    started,        \* useState(false), line 53
    quizFinished,   \* useState(false), line 54
    current,        \* useState(0), line 55
    answers,        \* useState([]), line 56: index -> chosen option, holes absent
    score,          \* useState(0), line 57
    remaining,      \* useState(QUIZ_DURATION), line 60
    intervalRef,    \* useRef(null), line 61: 0 is null, else an interval id
    showReview,     \* useState(false), line 64
    highScore,      \* useState(Number(getItem(KEY)) || 0), lines 67-69
    localStorage,   \* the item stored under LOCAL_STORAGE_HIGH_SCORE_KEY
    timers,         \* the browser's live intervals (ids set and not cleared)
    questions,      \* the question list the module holds in QUESTIONS, lines 14-40
    lastEvent       \* history: the event of the last step

vars == <<started, quizFinished, current, answers, score, remaining,
          intervalRef, showReview, highScore, localStorage, timers, questions,
          lastEvent>>

(***************************************************************************)
(* Bounds.  The source has 5 questions and a 60 second countdown; the      *)
(* model takes the first NumQuestions questions and a shorter countdown.   *)
(***************************************************************************)
NumQuestions == 2

Duration == 3

MaxTimers == 3

QUIZ_DURATION == Duration

(* Program data. *)
NumOptions == 4

\* the answer field of each entry of QUESTIONS, in order
AnswerKey == <<2, 0, 2, 1, 0>>

\* the list of the source, cut to its first NumQuestions entries
BundledQuestions ==
    [i \in 0..(NumQuestions - 1) |-> [answer |-> AnswerKey[i + 1], nOptions |-> NumOptions]]

\* a list whose first entry names a correct option it does not have
BadIndexQuestions == [BundledQuestions EXCEPT ![0].answer = NumOptions]

\* a question list breaks the contract of a question source when it is empty or
\* an entry's answer is not an index into its options
Malformed(qs) ==
    \/ DOMAIN qs = {}
    \/ \E i \in DOMAIN qs : qs[i].answer \notin 0..(qs[i].nOptions - 1)

QuestionSources == {BundledQuestions, BadIndexQuestions}

QUESTIONS == questions

QUESTIONS_length == Cardinality(DOMAIN questions)

OptionIdx == 0..(NumOptions - 1)

TimerIds == 1..MaxTimers

(***************************************************************************)
(* localStorage holds strings.  A string of decimal digits is a sequence   *)
(* of digits; getItem of a key never set is null.                          *)
(***************************************************************************)
NullItem == [isNull |-> TRUE, str |-> <<>>]

StrItem(s) == [isNull |-> FALSE, str |-> s]

RECURSIVE String(_)
String(n) == IF n < 10 THEN <<n>> ELSE Append(String(n \div 10), n % 10)

RECURSIVE DigitsValue(_)
DigitsValue(s) ==
    IF s = <<>> THEN 0 ELSE 10 * DigitsValue(SubSeq(s, 1, Len(s) - 1)) + s[Len(s)]

\* Number(item) || 0: Number(null) and Number("") are 0
NumberOrZero(item) == IF item.isNull THEN 0 ELSE DigitsValue(item.str)

(***************************************************************************)
(* The component's state as one record, the shape the handlers work on.   *)
(***************************************************************************)
View ==
    [started |-> started, quizFinished |-> quizFinished, current |-> current,
     answers |-> answers, score |-> score, remaining |-> remaining,
     intervalRef |-> intervalRef, showReview |-> showReview, timers |-> timers]

NoAnswers == [i \in {} |-> 0]

\* typeof answers[idx] === "number"
isAnswered(ans, idx) == idx \in DOMAIN ans

\* if (intervalRef.current) clearInterval(intervalRef.current)
clearRef(st) == [st EXCEPT !.timers = @ \ {st.intervalRef}]

\* mutant: setScore(0) of line 109 is missing
handleStart_KeepsScore(st) ==
    [st EXCEPT !.started = TRUE, !.quizFinished = FALSE, !.showReview = FALSE,
               !.current = 0, !.answers = NoAnswers,
               !.remaining = QUIZ_DURATION]

handleStart(st) ==
    [st EXCEPT !.started = TRUE, !.quizFinished = FALSE, !.showReview = FALSE,
               !.current = 0, !.answers = NoAnswers, !.score = 0,
               !.remaining = QUIZ_DURATION]

\* mutant: every selection scores, right or wrong
handleAnswer_AlwaysScores(st, optionIdx) ==
    IF isAnswered(st.answers, st.current) THEN st
    ELSE [st EXCEPT !.answers = (st.current :> optionIdx) @@ st.answers,
                    !.score = @ + 1]

\* mutant: the early return of line 116 is missing
handleAnswer_NoLock(st, optionIdx) ==
    LET isCorrect == optionIdx = QUESTIONS[st.current].answer
    IN  [st EXCEPT !.answers = (st.current :> optionIdx) @@ st.answers,
                   !.score = IF isCorrect THEN @ + 1 ELSE @]

handleAnswer(st, optionIdx) ==
    IF isAnswered(st.answers, st.current) THEN st
    ELSE LET isCorrect == optionIdx = QUESTIONS[st.current].answer
         IN  [st EXCEPT !.answers = (st.current :> optionIdx) @@ st.answers,
                        !.score = IF isCorrect THEN @ + 1 ELSE @]

\* mutant: no test against the last index
handleNext_NoClamp(st) == [st EXCEPT !.current = st.current + 1]

handleNext(st) ==
    IF st.current < QUESTIONS_length - 1
    THEN [st EXCEPT !.current = st.current + 1] ELSE st

handlePrev(st) ==
    IF st.current > 0 THEN [st EXCEPT !.current = st.current - 1] ELSE st

\* mutant: finishing also zeroes the clock
handleFinish_ZeroesRemaining(st) ==
    clearRef([st EXCEPT !.quizFinished = TRUE, !.remaining = 0])

handleFinish(st) == clearRef([st EXCEPT !.quizFinished = TRUE])

handleReview(st) == clearRef([st EXCEPT !.showReview = TRUE])

\* mutant: setStarted(false) of line 160 is missing
handleRestart_StaysStarted(st) ==
    [st EXCEPT !.quizFinished = FALSE, !.current = 0,
               !.answers = NoAnswers, !.score = 0, !.showReview = FALSE,
               !.remaining = QUIZ_DURATION]

\* handleRestart, lines 159-167
handleRestart(st) ==
    [st EXCEPT !.started = FALSE, !.quizFinished = FALSE, !.current = 0,
               !.answers = NoAnswers, !.score = 0, !.showReview = FALSE,
               !.remaining = QUIZ_DURATION]

\* mutant: the last tick returns 0 without calling handleFinish
tickCallback_NoFinish(st) ==
    IF st.remaining <= 1
    THEN [clearRef(st) EXCEPT !.remaining = 0]
    ELSE [st EXCEPT !.remaining = st.remaining - 1]

\* mutant: the last tick is taken to be the one that finds 0 (prev <= 0)
tickCallback_LateFinish(st) ==
    IF st.remaining <= 0
    THEN [handleFinish(clearRef(st)) EXCEPT !.remaining = 0]
    ELSE [st EXCEPT !.remaining = st.remaining - 1]

\* the interval's callback: setRemaining(prev => ...)
tickCallback(st) ==
    IF st.remaining <= 1
    THEN [handleFinish(clearRef(st)) EXCEPT !.remaining = 0]
    ELSE [st EXCEPT !.remaining = st.remaining - 1]

(***************************************************************************)
(* Effects run after the commit of a step.                                 *)
(***************************************************************************)
\* mutant: the condition of line 73 without !quizFinished
TimerCond_IgnoresFinished(s, q, r) == s /\ ~r

\* mutant: the condition of line 73 tests showReview instead of !showReview
TimerCond_WantsReview(s, q, r) == s /\ ~q /\ r

TimerCond(s, q, r) == s /\ ~q /\ ~r

FreshIds(st) == TimerIds \ (st.timers \cup {st.intervalRef})

\* the smallest id the browser has not handed out to a live or referenced interval
FreshId(st) == CHOOSE id \in FreshIds(st) : \A o \in FreshIds(st) : id <= o

\* useEffect(..., [started, quizFinished, showReview]): cleanup of the last run,
\* then the body, when a dependency changed
TimerEffect(st) ==
    LET changed == <<st.started, st.quizFinished, st.showReview>>
                       # <<started, quizFinished, showReview>>
        cleaned == IF changed /\ TimerCond(started, quizFinished, showReview)
                   THEN clearRef(st) ELSE st
    IN  IF changed /\ TimerCond(st.started, st.quizFinished, st.showReview)
        THEN LET c == clearRef(cleaned)
             IN  [c EXCEPT !.timers = @ \cup {FreshId(c)}, !.intervalRef = FreshId(c)]
        ELSE cleaned

CanArm(st) ==
    (<<st.started, st.quizFinished, st.showReview>> # <<started, quizFinished, showReview>>
        /\ TimerCond(st.started, st.quizFinished, st.showReview))
    => FreshIds(st) # {}

\* mutant: the finished score is stored without the comparison of line 94
ScoreEffect_NoCompare(st, hs, item) ==
    IF st.quizFinished
    THEN [highScore |-> st.score, item |-> StrItem(String(st.score))]
    ELSE [highScore |-> hs, item |-> item]

\* mutant: the test of quizFinished of line 93 is missing
ScoreEffect_NoFinishedCheck(st, hs, item) ==
    IF st.score > hs
    THEN [highScore |-> st.score, item |-> StrItem(String(st.score))]
    ELSE [highScore |-> hs, item |-> item]

\* mutant: the score is stored but setHighScore of line 95 is missing
ScoreEffect_StoresOnly(st, hs, item) ==
    IF /\ <<st.quizFinished, st.score>> # <<quizFinished, score>>
       /\ st.quizFinished
       /\ st.score > hs
    THEN [highScore |-> hs, item |-> StrItem(String(st.score))]
    ELSE [highScore |-> hs, item |-> item]

\* useEffect(..., [quizFinished, score, highScore]): runs when a dependency
\* changed; its own setHighScore makes it run once more, to no effect
ScoreEffect(st, hs, item) ==
    IF /\ <<st.quizFinished, st.score>> # <<quizFinished, score>>
       /\ st.quizFinished
       /\ st.score > hs
    THEN [highScore |-> st.score, item |-> StrItem(String(st.score))]
    ELSE [highScore |-> hs, item |-> item]

\* the commit of a step's updates, with the effects it triggers
Commit(st0, ev) ==
    /\ CanArm(st0)
    /\ LET st == TimerEffect(st0)
           se == ScoreEffect(st, highScore, localStorage)
       IN  /\ started' = st.started
           /\ quizFinished' = st.quizFinished
           /\ current' = st.current
           /\ answers' = st.answers
           /\ score' = st.score
           /\ remaining' = st.remaining
           /\ intervalRef' = st.intervalRef
           /\ showReview' = st.showReview
           /\ timers' = st.timers
           /\ highScore' = se.highScore
           /\ localStorage' = se.item
           /\ lastEvent' = ev
           /\ UNCHANGED questions

\* a click the browser does not dispatch (the button is disabled)
Ignored(ev) ==
    /\ lastEvent' = ev
    /\ UNCHANGED <<started, quizFinished, current, answers, score, remaining,
                   intervalRef, showReview, highScore, localStorage, timers,
                   questions>>

(***************************************************************************)
(* What is rendered.                                                       *)
(***************************************************************************)
HomeScreen == ~started

ResultScreen == started /\ (quizFinished \/ remaining = 0)

\* mutant: the result screen of line 199 does not replace the quiz
ActiveScreen_NoResultGate == started

ActiveScreen == started /\ ~(quizFinished \/ remaining = 0)

OptionDisabled == isAnswered(answers, current)

PrevDisabled == current = 0

NextShown == ActiveScreen /\ current # QUESTIONS_length - 1

\* mutant: Finish Quiz is rendered on every question, not only the last (line 321)
FinishShown_OnEveryQuestion == ActiveScreen

FinishShown == ActiveScreen /\ current = QUESTIONS_length - 1

\* mutant: Next and Finish Quiz are never disabled (lines 317, 324)
NextDisabled_Never == FALSE

NextDisabled == ~isAnswered(answers, current)

\* mutant: the Review Answers button is rendered during the quiz too
ReviewShown_Always == started /\ ~showReview

ReviewShown == ResultScreen /\ ~showReview

(***************************************************************************)
(* Events.                                                                 *)
(***************************************************************************)
ClickStart == HomeScreen /\ Commit(handleStart(View), "start")

\* mutant: the click is handled as the render before the last click would: the
\* button still enabled, answers[current] still undefined in the handler's closure
ClickOption_StaleRender(idx) ==
    /\ ActiveScreen
    /\ Commit(handleAnswer_NoLock(View, idx), "answer")

ClickOption(idx) ==
    /\ ActiveScreen
    /\ IF OptionDisabled THEN Ignored("answer_disabled")
       ELSE Commit(handleAnswer(View, idx), "answer")

ClickNext ==
    /\ NextShown
    /\ IF NextDisabled THEN Ignored("next_disabled")
       ELSE Commit(handleNext(View), "next")

ClickPrev ==
    /\ ActiveScreen
    /\ IF PrevDisabled THEN Ignored("prev_disabled")
       ELSE Commit(handlePrev(View), "prev")

ClickFinish ==
    /\ FinishShown
    /\ IF NextDisabled THEN Ignored("finish_disabled")
       ELSE Commit(handleFinish(View), "finish")

ClickReview == ReviewShown /\ Commit(handleReview(View), "review")

ClickRestart == ResultScreen /\ Commit(handleRestart(View), "restart")

Tick(id) == id \in timers /\ Commit(tickCallback(View), "tick")

\* a page load: the component mounts afresh and reads the stored high score
Reload ==
    /\ started' = FALSE
    /\ quizFinished' = FALSE
    /\ current' = 0
    /\ answers' = NoAnswers
    /\ score' = 0
    /\ remaining' = QUIZ_DURATION
    /\ intervalRef' = 0
    /\ showReview' = FALSE
    /\ highScore' = NumberOrZero(localStorage)
    /\ timers' = {}
    /\ lastEvent' = "reload"
    /\ UNCHANGED <<localStorage, questions>>

\* the component as mounted, whatever the question list
Mounted ==
    /\ started = FALSE
    /\ quizFinished = FALSE
    /\ current = 0
    /\ answers = NoAnswers
    /\ score = 0
    /\ remaining = QUIZ_DURATION
    /\ intervalRef = 0
    /\ showReview = FALSE
    /\ localStorage \in {NullItem} \cup {StrItem(String(n)) : n \in 1..QUESTIONS_length}
    /\ highScore = NumberOrZero(localStorage)
    /\ timers = {}
    /\ lastEvent = "reload"

Init == questions = BundledQuestions /\ Mounted

\* the program built with any of the question lists, well-formed or not
SourceInit == questions \in QuestionSources /\ Mounted

Next ==
    \/ ClickStart
    \/ \E idx \in OptionIdx : ClickOption(idx)
    \/ ClickNext
    \/ ClickPrev
    \/ ClickFinish
    \/ ClickReview
    \/ ClickRestart
    \/ \E id \in TimerIds : Tick(id)
    \/ Reload

Spec == Init /\ [][Next]_vars

\* setInterval(..., 1000): a live interval keeps firing
TickFires == \E id \in TimerIds : Tick(id)

FairSpec == Spec /\ WF_vars(TickFires)

SourceSpec == SourceInit /\ [][Next]_vars

(***************************************************************************)
(* The review rendered by AnswerReview: questions.map((q, idx) => ...).    *)
(* answers[idx] of a hole or past the end of the array is undefined.       *)
(***************************************************************************)
JsNumber(v) == [type |-> "number", val |-> v]

JsUndefined == [type |-> "undefined", val |-> 0]

ArrayGet(ans, idx) == IF idx \in DOMAIN ans THEN JsNumber(ans[idx]) ELSE JsUndefined

ReviewEntry(ans, qs, idx) ==
    LET userAns == ArrayGet(ans, idx)
        correct == JsNumber(qs[idx].answer)
        isCorr  == userAns = correct
    IN  [key |-> idx, isCorr |-> isCorr, correctOption |-> correct.val,
         notAnswered |-> userAns.type # "number", yourAnswer |-> userAns]

\* mutant: the entries are mapped over the answers array, not over the questions
AnswerReview_OverAnswers(ans, qs) ==
    [k \in 1..Cardinality(DOMAIN ans) |-> ReviewEntry(ans, qs, k - 1)]

AnswerReview(ans, qs) ==
    [k \in 1..Cardinality(DOMAIN qs) |-> ReviewEntry(ans, qs, k - 1)]

\* the message of the result view, lines 408-414
ResultMessage(sc, total, hs) ==
    IF sc = total THEN "perfect"
    ELSE IF sc = 0 THEN "ouch"
    ELSE IF sc > hs THEN "new_high_score"
    ELSE IF hs > 0 THEN "high_score"
    ELSE ""

(***************************************************************************)
(* Phases of the session.                                                  *)
(***************************************************************************)
NotStarted == ~started

InProgress == started /\ ~quizFinished /\ ~showReview

Finished == started /\ quizFinished /\ ~showReview

Reviewing == started /\ showReview

TypeOK ==
    /\ started \in BOOLEAN /\ quizFinished \in BOOLEAN /\ showReview \in BOOLEAN
    /\ current \in 0..(QUESTIONS_length - 1)
    /\ DOMAIN answers \subseteq 0..(QUESTIONS_length - 1)
    /\ \A i \in DOMAIN answers : answers[i] \in OptionIdx
    /\ score \in 0..QUESTIONS_length
    /\ remaining \in 0..QUIZ_DURATION
    /\ intervalRef \in {0} \cup TimerIds
    /\ timers \subseteq TimerIds
    /\ highScore \in 0..QUESTIONS_length

Max(a, b) == IF a >= b THEN a ELSE b

\* the high score as the next page load would read it
StoredHighScore == NumberOrZero(localStorage)

CorrectCount == Cardinality({i \in DOMAIN answers : answers[i] = QUESTIONS[i].answer})

(***************************************************************************)
(* C1.  Score consistency: in every reachable state score is the number    *)
(* of answered questions whose recorded option is the question's correct   *)
(* one.                                                                    *)
(***************************************************************************)
C1_ScoreConsistency == score = CorrectCount

\* a right and a wrong answer have been recorded, the last one just now
C1_Witness ==
    /\ lastEvent = "answer"
    /\ score >= 1
    /\ \E i \in DOMAIN answers : answers[i] # QUESTIONS[i].answer

(***************************************************************************)
(* C2.  Answer lock: when the presented question has a recorded answer,    *)
(* handleAnswer with any option returns the state as it is, a click on an  *)
(* option leaves answers and score as they are, and no step of a running   *)
(* session removes or overwrites a recorded answer.                        *)
(***************************************************************************)
C2_AnswerLock ==
    /\ [](isAnswered(answers, current)
            => \A idx \in OptionIdx : handleAnswer(View, idx) = View)
    /\ [][/\ (started /\ started')
                => \A i \in DOMAIN answers :
                       i \in DOMAIN answers' /\ answers'[i] = answers[i]
          /\ (isAnswered(answers, current)
                /\ lastEvent' \in {"answer", "answer_disabled"})
                => (answers' = answers /\ score' = score)]_vars

\* a second selection on a question answered wrongly has been made
C2_Witness ==
    /\ lastEvent = "answer_disabled"
    /\ isAnswered(answers, current)
    /\ answers[current] # QUESTIONS[current].answer

(***************************************************************************)
(* C3.  Monotonic high score: the step that finishes a session leaves the  *)
(* stored high score at the maximum of its value before and the session's  *)
(* score, the running session does not touch it, and no step lowers it.    *)
(***************************************************************************)
C3_HighScoreMax ==
    [][/\ (started /\ ~quizFinished /\ started' /\ quizFinished')
            => /\ NumberOrZero(localStorage') = Max(StoredHighScore, score')
               /\ highScore' = Max(highScore, score')
       /\ (started /\ ~quizFinished /\ ~quizFinished')
            => localStorage' = localStorage
       /\ NumberOrZero(localStorage') >= StoredHighScore
       /\ highScore' >= highScore]_vars

\* a session has finished below an earlier session's high score
C3_Witness ==
    /\ started /\ quizFinished
    /\ lastEvent \in {"finish", "tick"}
    /\ score >= 1
    /\ StoredHighScore > score

(***************************************************************************)
(* C4.  Timer dominance: the tick that brings remaining to 0 in a running  *)
(* session leaves the session Finished with answers, score and position   *)
(* as they were, and from then on no answer or navigation is applied       *)
(* until the session is reset.                                             *)
(***************************************************************************)
C4_TimerDominance ==
    [][/\ (InProgress /\ lastEvent' = "tick" /\ remaining <= 1)
            => /\ Finished' /\ remaining' = 0
               /\ answers' = answers /\ score' = score /\ current' = current
       /\ (started /\ remaining = 0 /\ started')
            => /\ lastEvent' \notin {"answer", "next", "prev", "finish"}
               /\ answers' = answers /\ score' = score /\ current' = current
               /\ quizFinished']_vars

\* the clock ran out on a session with a question still open
C4_Witness ==
    /\ lastEvent = "tick"
    /\ remaining = 0
    /\ Finished
    /\ DOMAIN answers # 0..(QUESTIONS_length - 1)
    /\ DOMAIN answers # {}

(***************************************************************************)
(* C5.  Cancellation: at most one interval is live, a live interval is     *)
(* the one intervalRef names and belongs to a running session, and a       *)
(* running session has one; so outside InProgress (home screen, Finished,  *)
(* Reviewing) nothing is armed and a new session starts with no interval   *)
(* left from an earlier one.                                               *)
(***************************************************************************)
C5_TimerCancellation ==
    /\ Cardinality(timers) <= 1
    /\ timers # {} => (InProgress /\ timers = {intervalRef})
    /\ InProgress => timers # {}
    /\ lastEvent = "tick" => started

\* a second session runs on its own interval, the first one's id still known
C5_Witness ==
    /\ InProgress
    /\ lastEvent = "tick"
    /\ intervalRef > 1
    /\ timers = {intervalRef}

(***************************************************************************)
(* C6.  Navigation clamping: position stays within 0..len-1; handlePrev at *)
(* position 0 and handleNext at the last position return the state as it   *)
(* is; a click on the disabled Previous button changes nothing; and a      *)
(* Next or Previous that is applied moves the position by exactly one.     *)
(***************************************************************************)
C6_NavigationClamping ==
    /\ [](/\ current \in 0..(QUESTIONS_length - 1)
          /\ current = 0 => handlePrev(View) = View
          /\ current = QUESTIONS_length - 1 => handleNext(View) = View)
    /\ [][/\ lastEvent' = "next" => current' = current + 1
          /\ lastEvent' = "prev" => current' = current - 1
          /\ lastEvent' \in {"prev_disabled", "next_disabled"}
                => current' = current]_vars

\* Previous was clicked on the first question
C6_Witness == lastEvent = "prev_disabled" /\ current = 0 /\ InProgress

(***************************************************************************)
(* C7.  remaining changes only by a tick of a running session, which       *)
(* lowers it by one and not below 0, or by a reset (start, restart, page   *)
(* load) to QUIZ_DURATION; in Finished and Reviewing it keeps its value    *)
(* until the reset.                                                        *)
(***************************************************************************)
C7_RemainingFrame ==
    [][/\ remaining' # remaining
            => \/ /\ lastEvent' = "tick" /\ InProgress
                  /\ remaining' = remaining - 1 /\ remaining' >= 0
               \/ /\ lastEvent' \in {"start", "restart", "reload"}
                  /\ remaining' = QUIZ_DURATION
       /\ lastEvent' = "tick" => remaining' = remaining - 1
       /\ ((Finished \/ Reviewing) /\ started') => remaining' = remaining]_vars

\* a session finished by the user with time left is under review
C7_Witness ==
    /\ Reviewing
    /\ lastEvent = "review"
    /\ remaining \in 1..(QUIZ_DURATION - 1)

(***************************************************************************)
(* C8.  The stored high score is written only by the step that takes a     *)
(* running session to Finished (finish or the last tick), and only with a  *)
(* value greater than the stored one; being written only on leaving        *)
(* InProgress, it is written at most once per session.                     *)
(***************************************************************************)
C8_StoreWrites ==
    [][localStorage' # localStorage
          => /\ InProgress /\ Finished'
             /\ lastEvent' \in {"finish", "tick"}
             /\ NumberOrZero(localStorage') > StoredHighScore
             /\ NumberOrZero(localStorage') = score']_vars

\* a finished session has raised a high score that was already set
C8_Witness ==
    /\ Finished
    /\ lastEvent = "finish"
    /\ StoredHighScore = score
    /\ score >= 2

(***************************************************************************)
(* C9.  Once a session is finished, score and answers stay as they are in  *)
(* Finished and Reviewing; only a reset changes them.                      *)
(***************************************************************************)
C9_ScoreFrozen ==
    [][(started /\ quizFinished /\ started')
          => (score' = score /\ answers' = answers /\ quizFinished')]_vars

\* a timed-out session with an open question is under review
C9_Witness ==
    /\ Reviewing
    /\ lastEvent = "review"
    /\ remaining = 0
    /\ score >= 1
    /\ DOMAIN answers # 0..(QUESTIONS_length - 1)

(***************************************************************************)
(* C10.  Phase ordering: Reviewing is entered only by review from          *)
(* Finished, Finished only from InProgress, and Reviewing is left only by  *)
(* a reset (restart or page load), which leads to NotStarted.              *)
(***************************************************************************)
C10_PhaseOrder ==
    [][/\ (Reviewing' /\ ~Reviewing) => (Finished /\ lastEvent' = "review")
       /\ (Finished' /\ ~Finished) => InProgress
       /\ Reviewing
            => \/ Reviewing'
               \/ NotStarted' /\ lastEvent' \in {"restart", "reload"}]_vars

\* a session finished by the user on the last question has gone to review
C10_Witness ==
    /\ Reviewing
    /\ quizFinished
    /\ lastEvent = "review"
    /\ DOMAIN answers = 0..(QUESTIONS_length - 1)

(***************************************************************************)
(* C11.  As stated: start is enabled in every phase.                       *)
(***************************************************************************)
C11_StartInEveryPhase == ENABLED ClickStart

(***************************************************************************)
(* C11, amended.  The Start Quiz button exists on the home screen only, so *)
(* start is enabled exactly in NotStarted.  handleStart itself has no      *)
(* precondition: committed on any reachable state it yields position 0,    *)
(* no answers, score 0, remaining = QUIZ_DURATION, phase InProgress with   *)
(* one interval armed, and leaves the high score (in memory and stored)    *)
(* as it is; and that is what every start step does.                       *)
(***************************************************************************)
C11_StartResets ==
    /\ [](ENABLED ClickStart <=> NotStarted)
    /\ [](LET st == TimerEffect(handleStart(View))
          IN  /\ st.started /\ ~st.quizFinished /\ ~st.showReview
              /\ st.current = 0 /\ st.answers = NoAnswers /\ st.score = 0
              /\ st.remaining = QUIZ_DURATION
              /\ st.intervalRef # 0 /\ st.timers = {st.intervalRef}
              /\ ScoreEffect(st, highScore, localStorage)
                    = [highScore |-> highScore, item |-> localStorage])
    /\ [][lastEvent' = "start"
            => /\ NotStarted /\ InProgress'
               /\ current' = 0 /\ answers' = NoAnswers /\ score' = 0
               /\ remaining' = QUIZ_DURATION
               /\ timers' = {intervalRef'} /\ intervalRef' # 0
               /\ UNCHANGED <<highScore, localStorage>>]_vars

\* a session was started from the home screen after an earlier one set a high score
C11_Witness ==
    /\ lastEvent = "start"
    /\ InProgress
    /\ remaining = QUIZ_DURATION
    /\ highScore >= 1
    /\ intervalRef > 1

(***************************************************************************)
(* C12.  As stated: finish can be applied in every InProgress state.       *)
(***************************************************************************)
C12_FinishInAnyState == InProgress => ENABLED (ClickFinish /\ quizFinished')

(***************************************************************************)
(* C12, amended.  The user can finish exactly on the last question once    *)
(* it is answered, and then every question is answered.  handleFinish has  *)
(* no precondition of its own: on any InProgress state it yields Finished  *)
(* with answers, position and clock as they are and the score equal to the *)
(* number of questions answered correctly; a finish step does just that.   *)
(***************************************************************************)
C12_FinishPermitted ==
    /\ [](ENABLED (ClickFinish /\ quizFinished')
            <=> (InProgress /\ current = QUESTIONS_length - 1
                    /\ isAnswered(answers, current)))
    /\ [](InProgress
            => LET st == handleFinish(View)
               IN  /\ st.started /\ st.quizFinished /\ ~st.showReview
                   /\ st.score = CorrectCount
                   /\ st.answers = answers /\ st.current = current
                   /\ st.remaining = remaining)
    /\ [][lastEvent' = "finish"
            => /\ InProgress /\ Finished'
               /\ DOMAIN answers = 0..(QUESTIONS_length - 1)
               /\ answers' = answers /\ score' = score
               /\ score' = CorrectCount']_vars

\* the user finished with every question answered, some of them wrongly
C12_Witness ==
    /\ lastEvent = "finish"
    /\ Finished
    /\ score \in 1..(QUESTIONS_length - 1)
    /\ DOMAIN answers = 0..(QUESTIONS_length - 1)
    /\ remaining >= 1

(***************************************************************************)
(* C13.  With the interval firing as long as it is live, every running     *)
(* session reaches Finished (unless the page is loaded anew first).  A     *)
(* session starts with remaining = QUIZ_DURATION, no answers and score 0;  *)
(* each tick lowers remaining by one, touches neither answers nor score,   *)
(* and finishes the session exactly when remaining becomes 0: so without   *)
(* user action the session is Finished after QUIZ_DURATION ticks, with     *)
(* score 0 and no answers.                                                 *)
(***************************************************************************)
C13_EventuallyFinished ==
    /\ [][lastEvent' = "start"
            => /\ remaining' = QUIZ_DURATION
               /\ answers' = NoAnswers /\ score' = 0]_vars
    /\ [][lastEvent' = "tick"
            => /\ InProgress
               /\ remaining' = remaining - 1
               /\ Finished' <=> remaining' = 0
               /\ InProgress' <=> remaining' > 0
               /\ answers' = answers /\ score' = score]_vars
    /\ (InProgress ~> (Finished \/ lastEvent = "reload"))

\* the clock ran out on a session in which nothing was answered
C13_Witness ==
    /\ lastEvent = "tick"
    /\ Finished
    /\ remaining = 0
    /\ answers = NoAnswers
    /\ score = 0
    /\ current = 0

(***************************************************************************)
(* C14.  Review completeness: in Reviewing, AnswerReview(answers,          *)
(* QUESTIONS), which reads nothing else, has one entry per question in     *)
(* question order; entry i is flagged correct iff question i is answered   *)
(* with its correct option, shows "Not Answered" iff question i has no     *)
(* recorded answer, and the entries flagged correct number the score.      *)
(***************************************************************************)
C14_ReviewComplete ==
    Reviewing =>
        LET rv == AnswerReview(answers, QUESTIONS)
        IN  /\ Len(rv) = QUESTIONS_length
            /\ \A k \in 1..QUESTIONS_length :
                  /\ rv[k].key = k - 1
                  /\ rv[k].isCorr <=> (isAnswered(answers, k - 1)
                                        /\ answers[k - 1] = QUESTIONS[k - 1].answer)
                  /\ rv[k].notAnswered <=> ~isAnswered(answers, k - 1)
                  /\ rv[k].correctOption = QUESTIONS[k - 1].answer
            /\ Cardinality({k \in 1..QUESTIONS_length : rv[k].isCorr}) = score

\* the review shows a correct entry and a "Not Answered" entry
C14_Witness ==
    /\ Reviewing
    /\ LET rv == AnswerReview(answers, QUESTIONS)
       IN  /\ \E k \in DOMAIN rv : rv[k].isCorr
           /\ \E k \in DOMAIN rv : rv[k].notAnswered

(***************************************************************************)
(* C15.  A session over a malformed question source never starts:          *)
(* handleStart rejects the source and the phase stays NotStarted.          *)
(***************************************************************************)
C15_MalformedNeverStarts == Malformed(QUESTIONS) => NotStarted

C17_AnsweredPrefix ==
    /\ [](InProgress
            => /\ \A i \in 0..(current - 1) : isAnswered(answers, i)
               /\ \A i \in DOMAIN answers : \A j \in 0..(i - 1) : isAnswered(answers, j))
    /\ [][/\ lastEvent' = "finish" => DOMAIN answers' = 0..(QUESTIONS_length - 1)
          /\ (InProgress /\ Finished' /\ DOMAIN answers' # 0..(QUESTIONS_length - 1))
                => lastEvent' = "tick"]_vars

\* the user has moved on to the last question, which is still open
C17_Witness ==
    /\ InProgress
    /\ lastEvent = "next"
    /\ current = QUESTIONS_length - 1
    /\ DOMAIN answers = 0..(current - 1)

(***************************************************************************)
(* C18.  In a started session remaining = 0 implies quizFinished: the      *)
(* tick that brings remaining to 0 finishes the session in the same step,  *)
(* the interval is gone, and the high score (in memory and stored) has     *)
(* taken the timed-out session's score into account.                       *)
(***************************************************************************)
C18_ExpiryFinishes ==
    (started /\ remaining = 0)
        => /\ quizFinished
           /\ timers = {}
           /\ highScore >= score
           /\ StoredHighScore >= score

\* a timed-out session has set the high score
C18_Witness ==
    /\ lastEvent = "tick"
    /\ started /\ remaining = 0 /\ quizFinished
    /\ score >= 1
    /\ highScore = score
    /\ StoredHighScore = score

(***************************************************************************)
(* C19.  In every Finished or Reviewing state the score effect has run:    *)
(* highScore >= score, the stored value reads back as highScore, and the   *)
(* result view does not show "New High Score!".                            *)
(***************************************************************************)
C19_SettledHighScore ==
    (started /\ quizFinished)
        => /\ highScore >= score
           /\ StoredHighScore = highScore
           /\ ResultMessage(score, QUESTIONS_length, highScore) # "new_high_score"

\* a finished session that set the high score is shown the old-style message
C19_Witness ==
    /\ Finished
    /\ lastEvent = "finish"
    /\ highScore = score
    /\ ResultMessage(score, QUESTIONS_length, highScore) = "high_score"

(***************************************************************************)
(* C20.  Play Again is offered in every Finished and Reviewing state; a    *)
(* restart step leaves one of them for NotStarted with position 0, no      *)
(* answers, score 0, review off and the full duration, changes neither     *)
(* highScore nor the stored value, and no interval is live while the       *)
(* session is not started.                                                 *)
(***************************************************************************)
C20_RestartFrame ==
    /\ []((Finished \/ Reviewing) => ENABLED ClickRestart)
    /\ [](NotStarted => timers = {})
    /\ [][lastEvent' = "restart"
            => /\ Finished \/ Reviewing
               /\ NotStarted' /\ ~InProgress'
               /\ current' = 0
               /\ answers' = NoAnswers
               /\ score' = 0
               /\ ~showReview'
               /\ ~quizFinished'
               /\ remaining' = QUIZ_DURATION
               /\ timers' = {}
               /\ UNCHANGED <<highScore, localStorage>>]_vars

\* a restart taken from the review of a session that had set the high score
C20_Witness ==
    /\ NotStarted
    /\ lastEvent = "restart"
    /\ highScore >= 1
    /\ StoredHighScore = highScore
    /\ score = 0
    /\ remaining = QUIZ_DURATION

====
